---- MODULE Spec2Model ----
(***************************************************************************)
(* Remote offload pipeline of the AR recorder server                       *)
(* (src/server/local/app.py): session-name resolution, the scp/ssh         *)
(* wrappers, process_session_on_gpu_server and the /api/process-session    *)
(* handler.                                                                *)
(*                                                                         *)
(* Strings are modelled as sequences of tokens ("session_", "1000",        *)
(* ".jsonl", ...): startswith / endswith / slicing / glob act on the       *)
(* tokens the way the code's string operations act on the characters.      *)
(* A path is the sequence of its components below the extraction root.     *)
(***************************************************************************)
EXTENDS Naturals, Sequences, FiniteSets, TLC

\* ---------------------------------------------------------------- bounds
\* Largest clock reading, in clock ticks.
MaxNow == 2
\* Clock ticks per millisecond (the resolution of time.time() is finer than 1 ms).
TicksPerMs == 2

\* ------------------------------------------------------- names and paths
Procs == {"p1", "p2"}
NoProc == "none"

DirSession == <<"session_", "1000">>
FileSessionJsonl == <<"session_", "42", ".jsonl">>
FileInnerJsonl == <<"session_", "1000", ".jsonl">>
FileOtherJsonl == <<"a", ".jsonl">>

\* Files that may lie at the top level of the extracted archive, and files
\* that may lie in the directory session_1000.
RootFiles == {FileSessionJsonl, FileOtherJsonl}
SubFiles == {FileInnerJsonl, FileOtherJsonl}

\* An extracted archive: whether the directory session_1000 exists at the
\* top level, the files in it, and the files at the top level.
Layouts ==
    { [sdir |-> d, sub |-> s, files |-> f] :
        d \in BOOLEAN, s \in SUBSET SubFiles, f \in SUBSET RootFiles }
    \ { l \in [sdir : BOOLEAN, sub : SUBSET SubFiles, files : SUBSET RootFiles] :
            ~l.sdir /\ l.sub # {} }

EmptyLayout == [sdir |-> FALSE, sub |-> {}, files |-> {}]

RootPath == << >>

\* os.listdir as glob sees it: the entries of a directory of the layout.
Listing(l, dir) ==
    IF dir = RootPath
    THEN (IF l.sdir THEN {DirSession} ELSE {}) \cup l.files
    ELSE IF dir = <<DirSession>> /\ l.sdir THEN l.sub ELSE {}

IsFile(l, path) ==
    /\ Len(path) > 0
    /\ path[Len(path)] \in Listing(l, SubSeq(path, 1, Len(path) - 1))
    /\ ~(Len(path) = 1 /\ path[1] = DirSession)

Dirname(path) == SubSeq(path, 1, Len(path) - 1)
Basename(path) == path[Len(path)]

StartsWithSession(name) == Len(name) >= 1 /\ name[1] = "session_"
EndsWithJsonl(name) == Len(name) >= 1 /\ name[Len(name)] = ".jsonl"

\* name[:-6] applied to a name that ends with ".jsonl" (six characters).
StripJsonl(name) == SubSeq(name, 1, Len(name) - 1)

\* glob.glob(os.path.join(dir, "session_*")): every entry, file or
\* directory, whose name starts with "session_".
GlobSession(l, dir) == { dir \o <<e>> : e \in { x \in Listing(l, dir) : StartsWithSession(x) } }

\* glob.glob(os.path.join(dir, "*.jsonl"))
GlobJsonl(l, dir) == { dir \o <<e>> : e \in { x \in Listing(l, dir) : EndsWithJsonl(x) } }

\* Python's string order on the tokens that occur ("1000" < "42", and a
\* string sorts before its extensions).
TokenRank(t) ==
    CASE t = ".jsonl" -> 0
      [] t = "1000" -> 1
      [] t = "42" -> 2
      [] t = "a" -> 3
      [] t = "session_" -> 4
      [] OTHER -> 5

RECURSIVE NameLess(_, _)
NameLess(a, b) ==
    IF Len(a) = 0 THEN Len(b) > 0
    ELSE IF Len(b) = 0 THEN FALSE
    ELSE IF a[1] = b[1] THEN NameLess(Tail(a), Tail(b))
    ELSE TokenRank(a[1]) < TokenRank(b[1])

\* sorted(paths)[0] for paths of one directory.
SortedFirst(paths) ==
    CHOOSE p \in paths : \A q \in paths \ {p} : NameLess(Basename(p), Basename(q))

\* int(time.time() * 1000) for a clock reading t, as the decimal string.
EpochMillis(t) == ToString(t \div TicksPerMs)

\* A name synthesized from int(time.time()): whole seconds.
SynthNameSeconds(t) == <<"session_", ToString((t \div TicksPerMs) \div 1000)>>

\* f"session_{int(time.time() * 1000)}" (lines 264, 267)
SynthName(t) == <<"session_", EpochMillis(t)>>

\* The name of the extraction root itself (process_session extracts into
\* <temp_dir>/extracted).
RootName == <<"extracted">>

\* os.path.basename(actual_session_folder.rstrip('/'))
FolderBasename(dir) == IF dir = RootPath THEN RootName ELSE Basename(dir)

\* actual_session_folder: the parent directory when a file path is passed.
ActualFolder(l, path) == IF IsFile(l, path) THEN Dirname(path) ELSE path

\* Session-name resolution without the default branches: the name stays
\* unset when no session_* entry exists and the .jsonl name does not match.
ResolveNamesNoDefault(l, path, t) ==
    LET actual == ActualFolder(l, path)
        sess == GlobSession(l, actual)
    IN  IF sess # {} THEN { Basename(s) : s \in sess } ELSE { << >> }

\* The names session_folder_name can take for a layout, the path passed and
\* the clock reading t. glob returns the matches in directory order, which
\* is unspecified, so element [0] is any match.
ResolveNames(l, path, t) ==
    LET actual == ActualFolder(l, path)
        sess == GlobSession(l, actual)
        jsonl == GlobJsonl(l, actual)
        named ==
            IF sess # {}
            THEN { Basename(s) : s \in sess }
            ELSE IF jsonl # {}
            THEN { IF StartsWithSession(Basename(j)) /\ EndsWithJsonl(Basename(j))
                   THEN StripJsonl(Basename(j))
                   ELSE SynthName(t) : j \in jsonl }
            ELSE { SynthName(t) }
    IN  { IF n = << >> THEN FolderBasename(actual) ELSE n : n \in named }

\* ------------------------------------------------------- configuration
\* config.GPU_SERVER_HOST / _USER / _SSH_KEY set (non-empty) or not, and
\* whether the key file exists on disk.
Configs ==
    { c \in [host : BOOLEAN, user : BOOLEAN, key : BOOLEAN, keyExists : BOOLEAN] :
        c.keyExists => c.key }

ValidConfig == [host |-> TRUE, user |-> TRUE, key |-> TRUE, keyExists |-> TRUE]

\* The configurations with at most one defect.
PipelineConfigs ==
    { c \in Configs :
        Cardinality({ k \in {"host", "user", "key", "keyExists"} : ~c[k] }) <= 1
        \/ (~c.key /\ c.host /\ c.user) }

ValueError == "ValueError: no GPU server configuration"
KeyNotFound == "FileNotFoundError: SSH key file not found"

\* A configuration check that tests nothing.
ConfigCheckNone(c) == "ok"

\* upload_to_gpu_server, lines 38-44
UploadConfigCheck(c) ==
    IF ~c.host \/ ~c.key THEN ValueError
    ELSE IF ~c.keyExists THEN KeyNotFound
    ELSE "ok"

\* download_from_gpu_server, lines 87-93
DownloadConfigCheck(c) ==
    IF ~c.host \/ ~c.key THEN ValueError
    ELSE IF ~c.keyExists THEN KeyNotFound
    ELSE "ok"

\* run_on_gpu_server, lines 135-141
RunConfigCheck(c) ==
    IF ~c.host \/ ~c.key THEN ValueError
    ELSE IF ~c.keyExists THEN KeyNotFound
    ELSE "ok"

\* ------------------------------------------------------------ scp / ssh
\* What one scp process can end with: the operation timeout, or an exit
\* status with the diagnostic text it printed.
ScpResults ==
    { [timedOut |-> TRUE, rc |-> 0, diag |-> "none"] }
    \cup { [timedOut |-> FALSE, rc |-> 0, diag |-> "none"] }
    \cup { [timedOut |-> FALSE, rc |-> 1, diag |-> d] :
             d \in {"Connection refused", "Connection timed out", "other"} }

\* No scp process was run.
NoScp == [timedOut |-> FALSE, rc |-> 0, diag |-> "not run"]

UploadTimeout == "SCP upload timeout: cannot connect, check VPN"
DownloadTimeout == "SCP download timeout: cannot connect"
ConnectFailed == "GPU server connection failed: check VPN, check GPU server, check network"
DownloadConnectFailed == "GPU server connection failed: check VPN, check GPU server"
UploadFailed == "SCP upload failed: other"
DownloadFailed == "SCP download failed: other"

\* The checks a message tells the operator to make: the VPN, the GPU server,
\* the network (lines 70, 75-80, 119, 124-128).
Guidance(e) ==
    CASE e = UploadTimeout -> {"vpn"}
      [] e = ConnectFailed -> {"vpn", "host", "network"}
      [] e = DownloadConnectFailed -> {"vpn", "host"}
      [] OTHER -> {}

\* The scp diagnostic text a message quotes (lines 80, 81, 128, 129).
Diagnostic(e, r) ==
    IF e \in {ConnectFailed, DownloadConnectFailed, UploadFailed, DownloadFailed}
    THEN r.diag
    ELSE "none"

\* upload_to_gpu_server, lines 67-83: the error raised for an scp result,
\* "ok" when none is.
UploadClassify(r) ==
    IF r.timedOut THEN UploadTimeout
    ELSE IF r.rc # 0
    THEN IF r.diag \in {"Connection timed out", "Connection refused"}
         THEN ConnectFailed
         ELSE UploadFailed
    ELSE "ok"

\* download_from_gpu_server, lines 116-131
DownloadClassify(r) ==
    IF r.timedOut THEN DownloadTimeout
    ELSE IF r.rc # 0
    THEN IF r.diag \in {"Connection timed out", "Connection refused"}
         THEN DownloadConnectFailed
         ELSE DownloadFailed
    ELSE "ok"

\* An upload that tries scp a second time after a connectivity error.
UploadOutcomesRetrying(c) ==
    IF UploadConfigCheck(c) # "ok"
    THEN { [err |-> UploadConfigCheck(c), spawned |-> 0, raw |-> NoScp] }
    ELSE { [err |-> UploadClassify(r),
            spawned |-> IF UploadClassify(r) \in {UploadTimeout, ConnectFailed} THEN 2 ELSE 1,
            raw |-> r] : r \in ScpResults }

\* The outcomes of one call of upload_to_gpu_server: the error raised ("ok"
\* when it returns) and the number of scp processes it started.
UploadOutcomes(c) ==
    IF UploadConfigCheck(c) # "ok"
    THEN { [err |-> UploadConfigCheck(c), spawned |-> 0, raw |-> NoScp] }
    ELSE { [err |-> UploadClassify(r), spawned |-> 1, raw |-> r] : r \in ScpResults }

\* The outcomes of one call of download_from_gpu_server; the remote file can
\* only be copied when it exists.
DownloadOutcomes(c, remoteExists) ==
    IF DownloadConfigCheck(c) # "ok"
    THEN { [err |-> DownloadConfigCheck(c), spawned |-> 0, raw |-> NoScp] }
    ELSE { [err |-> DownloadClassify(r), spawned |-> 1, raw |-> r] :
             r \in { x \in ScpResults : (x.rc = 0 /\ ~x.timedOut) => remoteExists } }

SshFailed == "SSH command failed (code: 1)"

\* The outcomes of one call of run_on_gpu_server whose remote command can
\* exit with the statuses rcs.
RunOutcomes(c, rcs) ==
    IF RunConfigCheck(c) # "ok"
    THEN { [err |-> RunConfigCheck(c), spawned |-> 0, rc |-> 0, raw |-> NoScp] }
    ELSE { [err |-> IF rc # 0 THEN SshFailed ELSE "ok", spawned |-> 1, rc |-> rc,
            raw |-> NoScp] :
             rc \in rcs }

\* ------------------------------------------------------------- results
\* A JSON value read with dict.get: an array, or None (null or missing).
Arr(v) == [t |-> "arr", v |-> v]
None == [t |-> "null", v |-> << >>]

DefaultCup == Arr(<<0, 0, 0>>)

\* Texts are token sequences: "{" and "}" are the braces, "x" is text
\* without braces, and a member token stands for one "key": value pair.
MemberKey(tok) ==
    CASE tok \in {"C", "C2", "Cn"} -> "cup_coordinates"
      [] tok \in {"R", "R0"} -> "rotation_axis"
      [] OTHER -> "other"

MemberValue(tok) ==
    CASE tok = "C" -> Arr(<<1, 2, 3>>)
      [] tok = "C2" -> Arr(<<1, 2>>)
      [] tok = "R" -> Arr(<<0, 0, 1>>)
      [] tok = "R0" -> Arr(<< >>)
      [] OTHER -> None

MemberTokens == {"C", "C2", "Cn", "R", "R0"}

\* json.loads: a dict for a well-formed object, a list for [], otherwise
\* the decoder raises.
JsonLoads(text) ==
    IF /\ Len(text) >= 2
       /\ text[1] = "{"
       /\ text[Len(text)] = "}"
       /\ \A i \in 2..(Len(text) - 1) : text[i] \in MemberTokens
    THEN [kind |-> "dict", members |-> { text[i] : i \in 2..(Len(text) - 1) }]
    ELSE IF text = <<"[", "]">>
    THEN [kind |-> "list", members |-> {}]
    ELSE [kind |-> "error", members |-> {}]

\* result_data.get(key, default) on a decoded dict.
DictGet(d, key, default) ==
    IF \E m \in d.members : MemberKey(m) = key
    THEN MemberValue(CHOOSE m \in d.members : MemberKey(m) = key)
    ELSE default

\* A search anchored at the start of the text (re.match).
ReSearchAnchored(text) ==
    LET closes == { i \in 1..Len(text) : text[i] = "}" }
        last == CHOOSE i \in closes : \A j \in closes : j <= i
    IN  IF Len(text) = 0 \/ text[1] # "{" \/ closes = {} THEN << >>
        ELSE SubSeq(text, 1, last)

\* re.search(r'\{.*\}', output, re.DOTALL).group(): from the first "{" to
\* the last "}" after it; the empty text when there is no match.
ReSearch(text) ==
    LET opens == { i \in 1..Len(text) : text[i] = "{" }
        first == CHOOSE i \in opens : \A j \in opens : i <= j
        closes == { i \in 1..Len(text) : text[i] = "}" /\ i > first }
        last == CHOOSE i \in closes : \A j \in closes : j <= i
    IN  IF opens = {} \/ closes = {} THEN << >> ELSE SubSeq(text, first, last)

\* Python truthiness of a JSON value.
Truthy(val) == val.t = "arr" /\ Len(val.v) > 0

\* The primary path (lines 365-368), after a successful download of a file
\* holding doc: the coordinates and axis read, or a raise.
ParsePrimary(doc) ==
    LET d == JsonLoads(doc)
    IN  IF d.kind = "dict"
        THEN [raised |-> FALSE,
              cup |-> DictGet(d, "cup_coordinates", DefaultCup),
              rot |-> DictGet(d, "rotation_axis", None)]
        ELSE [raised |-> TRUE, cup |-> DefaultCup, rot |-> None]

\* A fallback that gives up: the error is raised instead of being absorbed.
ParseFallbackRaises(out) ==
    LET m == ReSearch(out)
        d == JsonLoads(m)
    IN  IF m # << >> /\ d.kind = "dict"
        THEN [raised |-> FALSE,
              cup |-> DictGet(d, "cup_coordinates", DefaultCup),
              rot |-> DictGet(d, "rotation_axis", None)]
        ELSE [raised |-> TRUE, cup |-> DefaultCup, rot |-> None]

\* The fallback path (lines 372-385) on the captured output text.
ParseFallback(out) ==
    LET m == ReSearch(out)
        d == JsonLoads(m)
    IN  IF m # << >> /\ d.kind = "dict"
        THEN [raised |-> FALSE,
              cup |-> DictGet(d, "cup_coordinates", DefaultCup),
              rot |-> DictGet(d, "rotation_axis", None)]
        ELSE [raised |-> FALSE, cup |-> DefaultCup, rot |-> None]

SuccessMessage == "processing done (ran on the GPU server)"

\* An envelope that reports success whatever happened.
FailureEnvelopeAsSuccess(e) ==
    [success |-> TRUE, cup_coordinates |-> DefaultCup, message |-> SuccessMessage]

\* The failure envelope of the top-level handler (lines 405-412).
FailureEnvelope(e) ==
    [success |-> FALSE,
     error |-> e,
     message |-> <<"GPU server processing error: ", e, "traceback">>]

\* An envelope that carries every rotation_axis value that is not None.
SuccessEnvelopeNotNone(cup, rot) ==
    IF rot # None
    THEN [success |-> TRUE, cup_coordinates |-> cup, message |-> SuccessMessage,
          rotation_axis |-> rot]
    ELSE [success |-> TRUE, cup_coordinates |-> cup, message |-> SuccessMessage]

\* The success envelope (lines 393-403).
SuccessEnvelope(cup, rot) ==
    IF Truthy(rot)
    THEN [success |-> TRUE, cup_coordinates |-> cup, message |-> SuccessMessage,
          rotation_axis |-> rot]
    ELSE [success |-> TRUE, cup_coordinates |-> cup, message |-> SuccessMessage]

NoEnvelope == [pending |-> TRUE]

\* The texts the remote run can print, and the contents the result file can
\* have.
Outputs ==
    { <<"x">>,
      <<"x", "{", "C", "}", "x">>,
      <<"{", "C", "R", "}">>,
      <<"{", "x">>,
      <<"{", "C", "}", "x", "{", "x", "}">> }

ResultDocs ==
    { <<"{", "C", "R", "}">>, <<"{", "C2", "R0", "}">>, <<"{", "}">>, <<"[", "]">>,
      <<"x">> }

\* ------------------------------------------------------------- stages
Canon ==
    <<"Packaging", "Uploading", "RemoteExtracting", "StagingScripts",
      "Executing", "Downloading", "Parsing", "Done">>

StageIndex(s) == CHOOSE i \in 1..Len(Canon) : Canon[i] = s

\* A stage order that goes from Uploading straight to StagingScripts.
StageAfterSkipping(s) ==
    IF s = "Uploading" THEN "StagingScripts" ELSE Canon[StageIndex(s) + 1]

\* The stage the code runs after stage s has completed (lines 273-403).
StageAfter(s) == Canon[StageIndex(s) + 1]

ScriptProcess == "process_and_save_result.py"
ScriptInference == "inference_with_pose.py"

\* -------------------------------------------------------------- state
VARIABLES
    cfg,            \* the configuration (config.py), fixed for the run
    localScripts,   \* the gpu_server scripts that exist locally
    now,            \* the last clock reading
    pc,             \* where each invocation stands
    mode,           \* "direct" or "http": how the pipeline was entered
    fs,             \* the extracted archive of each invocation
    arg,            \* session_folder_path passed to the pipeline
    actualFolder,   \* actual_session_folder
    sessionName,    \* session_folder_name
    resolvedAt,     \* the clock reading used by the name resolution
    tarExists,      \* the local temporary bundle exists on disk
    resultExists,   \* the local temporary result file exists on disk
    output,         \* the text captured from the inference run
    fetched,        \* the outcome of the result download
    envelope,       \* the value the pipeline returned
    raised,         \* the exception that reached the top-level handler
    failedAt,       \* the stage that raised it
    stages,         \* the stages entered so far, in order
    spawned,        \* scp/ssh processes started by the invocation
    http,           \* the HTTP response of the handler
    rBundle,        \* remote workspace: uploaded bundles
    rDirs,          \* remote workspace: session directories
    rExtracted,     \* remote workspace: a directory named "extracted" exists
    rResult,        \* remote workspace: <name>_result.json files
    rScripts,       \* remote workspace: staged scripts
    lastCall,       \* the last direct call of upload / download / run
    libCalls,       \* the number of such calls
    ops,            \* the wrapper calls each invocation has made, in order
    health,         \* the last answer of GET /api/health, and where the
                    \* invocations stood when it was given
    sPc,            \* streaming run: where the call stands
    sCaller,        \* streaming run: who called it
    sProc,          \* streaming run: the ssh child process
    sRc,            \* streaming run: the exit status of the child
    sEof,           \* streaming run: the child has closed its stdout
    sPipe,          \* streaming run: lines written and not yet read
    sProduced,      \* streaming run: every line the child has written
    sLines,         \* streaming run: output_lines
    sLog,           \* streaming run: the lines printed to the local log
    sElapsed,       \* streaming run: ticks since the child was started
    sWaitStart,     \* streaming run: sElapsed when process.wait was called
    sResult         \* streaming run: what the call returned or raised

envVars == <<cfg, localScripts>>
remoteVars == <<rBundle, rDirs, rExtracted, rResult, rScripts>>
libVars == <<lastCall, libCalls>>
entryVars == <<mode, fs, arg>>
nameVars == <<actualFolder, sessionName, resolvedAt>>
failVars == <<envelope, raised, failedAt>>
streamVars ==
    <<sPc, sCaller, sProc, sRc, sEof, sPipe, sProduced, sLines, sLog, sElapsed,
      sWaitStart, sResult>>

vars ==
    <<cfg, localScripts, now, pc, mode, fs, arg, actualFolder, sessionName,
      resolvedAt, tarExists, resultExists, output, fetched, envelope, raised,
      failedAt, stages, spawned, http, rBundle, rDirs, rExtracted, rResult,
      rScripts, lastCall, libCalls, ops, health, sPc, sCaller, sProc, sRc, sEof,
      sPipe, sProduced, sLines, sLog, sElapsed, sWaitStart, sResult>>

\* Direct calls of the three wrappers allowed in one run.
MaxCalls == 3

NoFetch == [ok |-> FALSE, doc |-> << >>, err |-> "none"]
NoResponse == [status |-> 0, detail |-> "none", body |-> NoEnvelope]
NoCall == [fn |-> "none", err |-> "none", spawned |-> 0, raw |-> NoScp]
NoStream == [kind |-> "none"]
NoHealth == [response |-> NoResponse, at |-> "none"]

\* The state at start-up: the configuration is one of configs, and the
\* remote workspace, which outlives the server, holds a directory named
\* "extracted" or not, as extracteds says.
InitIn(configs, extracteds) ==
    /\ cfg \in configs
    /\ localScripts \in SUBSET {ScriptProcess, ScriptInference}
    /\ now = 0
    /\ pc = [p \in Procs |-> "idle"]
    /\ mode = [p \in Procs |-> "none"]
    /\ fs = [p \in Procs |-> EmptyLayout]
    /\ arg = [p \in Procs |-> RootPath]
    /\ actualFolder = [p \in Procs |-> RootPath]
    /\ sessionName = [p \in Procs |-> << >>]
    /\ resolvedAt = [p \in Procs |-> 0]
    /\ tarExists = [p \in Procs |-> FALSE]
    /\ resultExists = [p \in Procs |-> FALSE]
    /\ output = [p \in Procs |-> << >>]
    /\ fetched = [p \in Procs |-> NoFetch]
    /\ envelope = [p \in Procs |-> NoEnvelope]
    /\ raised = [p \in Procs |-> "none"]
    /\ failedAt = [p \in Procs |-> "none"]
    /\ stages = [p \in Procs |-> << >>]
    /\ spawned = [p \in Procs |-> 0]
    /\ http = [p \in Procs |-> NoResponse]
    /\ rBundle = {}
    /\ rDirs = {}
    /\ rExtracted \in extracteds
    /\ rResult = {}
    /\ rScripts = {}
    /\ lastCall = NoCall
    /\ libCalls = 0
    /\ ops = [p \in Procs |-> << >>]
    /\ health = NoHealth
    /\ sPc = "idle"
    /\ sCaller = "none"
    /\ sProc = "none"
    /\ sRc = 0
    /\ sEof = FALSE
    /\ sPipe = << >>
    /\ sProduced = << >>
    /\ sLines = << >>
    /\ sLog = << >>
    /\ sElapsed = 0
    /\ sWaitStart = 0
    /\ sResult = NoStream

\* Start-up on a workspace without a directory named "extracted".
InitWith(configs) == InitIn(configs, {FALSE})

Init == InitWith(PipelineConfigs)

\* A workspace that keeps one entry per name and invocation.
PutPerInvocation(S, rec) ==
    { x \in S : ~(x.name = rec.name /\ x.by = rec.by) } \cup {rec}

\* A remote file or directory set with the entry of one name replaced.
Put(S, rec) == { x \in S : x.name # rec.name } \cup {rec}
Names(S) == { x.name : x \in S }

\* ------------------------------------------------------------- entry
\* process_session_on_gpu_server called on the extraction root.
DirectCall(p, l) ==
    /\ pc[p] = "idle"
    /\ pc' = [pc EXCEPT ![p] = "Resolving"]
    /\ mode' = [mode EXCEPT ![p] = "direct"]
    /\ fs' = [fs EXCEPT ![p] = l]
    /\ arg' = [arg EXCEPT ![p] = RootPath]
    /\ UNCHANGED <<envVars, now, nameVars, tarExists, resultExists, output, fetched,
                   failVars, stages, spawned, ops, http, remoteVars, libVars,
                   streamVars, health>>

\* The session folder process_session passes on (lines 443-452): "none"
\* stands for the HTTPException 400.
LocateSessionFolder(l) ==
    LET session_folders == GlobSession(l, RootPath)
    IN  IF session_folders = {}
        THEN IF GlobJsonl(l, RootPath) # {} THEN RootPath ELSE <<"none">>
        ELSE SortedFirst(session_folders)

\* POST /api/process-session up to the call of the pipeline (lines 420-455).
\* upload: "empty_filename", "bad_zip", or "ok" with the archive's layout l.
process_session(p, l, upload) ==
    /\ pc[p] = "idle"
    /\ mode' = [mode EXCEPT ![p] = "http"]
    /\ IF upload = "empty_filename"
       THEN /\ pc' = [pc EXCEPT ![p] = "Responded"]
            /\ http' = [http EXCEPT ![p] =
                   [status |-> 400, detail |-> "Empty filename", body |-> NoEnvelope]]
            /\ UNCHANGED <<fs, arg>>
       ELSE IF upload = "bad_zip"
       THEN /\ pc' = [pc EXCEPT ![p] = "Responded"]
            /\ http' = [http EXCEPT ![p] =
                   [status |-> 500, detail |-> "BadZipFile", body |-> NoEnvelope]]
            /\ UNCHANGED <<fs, arg>>
       ELSE IF LocateSessionFolder(l) = <<"none">>
       THEN /\ pc' = [pc EXCEPT ![p] = "Responded"]
            /\ fs' = [fs EXCEPT ![p] = l]
            /\ http' = [http EXCEPT ![p] =
                   [status |-> 400, detail |-> "session folder not found",
                    body |-> NoEnvelope]]
            /\ UNCHANGED arg
       ELSE /\ pc' = [pc EXCEPT ![p] = "Resolving"]
            /\ fs' = [fs EXCEPT ![p] = l]
            /\ arg' = [arg EXCEPT ![p] = LocateSessionFolder(l)]
            /\ UNCHANGED http
    /\ UNCHANGED <<envVars, now, nameVars, tarExists, resultExists, output, fetched,
                   failVars, stages, spawned, ops, remoteVars, libVars,
                   streamVars, health>>

\* POST /api/process-session after the pipeline returned (lines 457-460).
process_session_return(p) ==
    /\ mode[p] = "http"
    /\ pc[p] \in {"Done", "Failed"}
    /\ pc' = [pc EXCEPT ![p] = "Responded"]
    /\ http' = [http EXCEPT ![p] =
           IF envelope[p].success
           THEN [status |-> 200, detail |-> "none", body |-> envelope[p]]
           ELSE [status |-> 500, detail |-> envelope[p].error, body |-> NoEnvelope]]
    /\ UNCHANGED <<envVars, now, entryVars, nameVars, tarExists, resultExists, output,
                   fetched, failVars, stages, spawned, ops, remoteVars, libVars,
                   streamVars, health>>

\* ------------------------------------------------------------ pipeline
\* Lines 238-271: the folder and the canonical session name.
ResolveSessionName(p) ==
    /\ pc[p] = "Resolving"
    /\ \E t \in now..MaxNow :
        \E n \in ResolveNames(fs[p], arg[p], t) :
            /\ now' = t
            /\ resolvedAt' = [resolvedAt EXCEPT ![p] = t]
            /\ sessionName' = [sessionName EXCEPT ![p] = n]
    /\ actualFolder' = [actualFolder EXCEPT ![p] = ActualFolder(fs[p], arg[p])]
    /\ pc' = [pc EXCEPT ![p] = Canon[1]]
    /\ UNCHANGED <<envVars, entryVars, tarExists, resultExists, output, fetched,
                   failVars, stages, spawned, ops, http, remoteVars, libVars,
                   streamVars, health>>

\* The exception e raised in stage s reaches the handler of lines 405-412.
FailAt(p, s, e) ==
    /\ pc' = [pc EXCEPT ![p] = "Failed"]
    /\ envelope' = [envelope EXCEPT ![p] = FailureEnvelope(e)]
    /\ raised' = [raised EXCEPT ![p] = e]
    /\ failedAt' = [failedAt EXCEPT ![p] = s]

Enter(p, s) == Append(stages[p], s)

\* One call of a wrapper by the invocation, and the processes it started.
Started(p, op, n) ==
    /\ spawned' = [spawned EXCEPT ![p] = @ + n]
    /\ ops' = [ops EXCEPT ![p] = Append(@, op)]

\* A cleanup that leaves the file behind.
UnlinkSkipped(exists) == exists

\* if os.path.exists(path): os.unlink(path)  (lines 309-310, 387-388):
\* whether the file exists afterwards.
UnlinkIfExists(exists) == FALSE

PackagingError == "OSError: cannot write the bundle"

\* Lines 278-286 (and the finally of 308-310 when the archive cannot be
\* written).
Packaging(p) ==
    /\ pc[p] = "Packaging"
    /\ \E ok \in BOOLEAN :
        IF ok
        THEN /\ tarExists' = [tarExists EXCEPT ![p] = TRUE]
             /\ pc' = [pc EXCEPT ![p] = StageAfter("Packaging")]
             /\ stages' = [stages EXCEPT ![p] = Enter(p, "Packaging")]
             /\ UNCHANGED failVars
        ELSE /\ tarExists' = [tarExists EXCEPT ![p] = UnlinkIfExists(TRUE)]
             /\ FailAt(p, "Packaging", PackagingError)
             /\ stages' = [stages EXCEPT ![p] = Append(Enter(p, "Packaging"), "Failed")]
    /\ UNCHANGED <<envVars, now, entryVars, nameVars, resultExists, output, fetched,
                   spawned, ops, http, remoteVars, libVars,
                   streamVars, health>>

\* Lines 290-292: the bundle goes to <work_dir>/<name>.tar.gz.
Uploading(p) ==
    /\ pc[p] = "Uploading"
    /\ \E o \in UploadOutcomes(cfg) :
        /\ Started(p, <<"upload", "bundle">>, o.spawned)
        /\ IF o.err = "ok"
           THEN /\ rBundle' = Put(rBundle, [name |-> sessionName[p], by |-> p])
                /\ pc' = [pc EXCEPT ![p] = StageAfter("Uploading")]
                /\ stages' = [stages EXCEPT ![p] = Enter(p, "Uploading")]
                /\ UNCHANGED <<tarExists, failVars>>
           ELSE /\ tarExists' = [tarExists EXCEPT ![p] = UnlinkIfExists(tarExists[p])]
                /\ FailAt(p, "Uploading", o.err)
                /\ stages' = [stages EXCEPT ![p] = Append(Enter(p, "Uploading"), "Failed")]
                /\ UNCHANGED rBundle
    /\ UNCHANGED <<envVars, now, entryVars, nameVars, resultExists, output, fetched,
                   http, rDirs, rExtracted, rResult, rScripts, libVars,
                   streamVars, health>>

\* An archive whose top-level directory is named "extracted".
ArcnameExtracted(name) == RootName

\* tar.add(actual_session_folder, arcname=session_folder_name), line 285:
\* the top-level directory of the bundle.
Arcname(name) == name

\* extract_cmd with the commands joined by ";": each runs whatever the
\* previous one did, here after a tar that failed.
ExtractEffectsUnchained(name, bundles, dirs, extracted) ==
    { [rc |-> 0,
       bundles |-> { b \in bundles : b.name # name },
       dirs |-> dirs,
       extracted |-> extracted] }

\* extract_cmd (lines 299-304) run in the workspace: the exit status and the
\* workspace it leaves. The commands are joined by &&: cd or tar can fail
\* and leave the workspace as it was, mv can fail after the decompression,
\* rm can fail after both.
ExtractEffects(name, bundles, dirs, extracted) ==
    LET failed == [rc |-> 1, bundles |-> bundles, dirs |-> dirs, extracted |-> extracted]
        bundle == CHOOSE b \in bundles : b.name = name
        root == Arcname(name)
        untarred ==
            IF root = RootName THEN dirs ELSE Put(dirs, [name |-> root, by |-> bundle.by])
        untarredExtracted == extracted \/ root = RootName
        rename == untarredExtracted /\ name \notin Names(untarred)
        moved == IF rename THEN Put(untarred, [name |-> name, by |-> NoProc]) ELSE untarred
        movedExtracted == untarredExtracted /\ ~rename
    IN  IF name \in Names(bundles)
        THEN { failed,
               [rc |-> 1, bundles |-> bundles, dirs |-> moved,
                extracted |-> movedExtracted],
               [rc |-> 0,
                bundles |-> { b \in bundles : b.name # name },
                dirs |-> moved,
                extracted |-> movedExtracted] }
             \cup (IF rename
                   THEN { [rc |-> 1, bundles |-> bundles, dirs |-> untarred,
                           extracted |-> untarredExtracted] }
                   ELSE {})
        ELSE { failed }

\* Lines 294-310: remote extraction, then the removal of the local bundle.
RemoteExtracting(p) ==
    /\ pc[p] = "RemoteExtracting"
    /\ \E eff \in ExtractEffects(sessionName[p], rBundle, rDirs, rExtracted) :
        \E o \in RunOutcomes(cfg, {eff.rc}) :
            /\ Started(p, <<"run", "extract">>, o.spawned)
            /\ IF o.spawned = 1
               THEN /\ rBundle' = eff.bundles
                    /\ rDirs' = eff.dirs
                    /\ rExtracted' = eff.extracted
               ELSE UNCHANGED <<rBundle, rDirs, rExtracted>>
            /\ IF o.err = "ok"
               THEN /\ pc' = [pc EXCEPT ![p] = StageAfter("RemoteExtracting")]
                    /\ stages' = [stages EXCEPT ![p] = Enter(p, "RemoteExtracting")]
                    /\ UNCHANGED failVars
               ELSE /\ FailAt(p, "RemoteExtracting", o.err)
                    /\ stages' = [stages EXCEPT ![p] =
                           Append(Enter(p, "RemoteExtracting"), "Failed")]
    /\ tarExists' = [tarExists EXCEPT ![p] = UnlinkIfExists(tarExists[p])]
    /\ UNCHANGED <<envVars, now, entryVars, nameVars, resultExists, output, fetched,
                   http, rResult, rScripts, libVars,
                   streamVars, health>>

MissingScript == "FileNotFoundError: script not found locally"

\* A staging step that fails the pipeline when the script is absent.
StageScriptRequired(p, script, stagesNow, nextPc) ==
    /\ IF script \in localScripts
       THEN \E o \in UploadOutcomes(cfg) :
               /\ Started(p, <<"upload", script>>, o.spawned)
               /\ IF o.err = "ok"
                  THEN /\ rScripts' = rScripts \cup {script}
                       /\ pc' = [pc EXCEPT ![p] = nextPc]
                       /\ stages' = [stages EXCEPT ![p] = stagesNow]
                       /\ UNCHANGED failVars
                  ELSE /\ FailAt(p, "StagingScripts", o.err)
                       /\ stages' = [stages EXCEPT ![p] = Append(stagesNow, "Failed")]
                       /\ UNCHANGED rScripts
       ELSE /\ FailAt(p, "StagingScripts", MissingScript)
            /\ stages' = [stages EXCEPT ![p] = Append(stagesNow, "Failed")]
            /\ UNCHANGED <<spawned, ops, rScripts>>
    /\ UNCHANGED <<envVars, now, entryVars, nameVars, tarExists, resultExists, output,
                   fetched, http, rBundle, rDirs, rExtracted, rResult, libVars,
                   streamVars, health>>

\* One script of lines 320-330: uploaded when it exists locally.
StageScript(p, script, stagesNow, nextPc) ==
    /\ IF script \in localScripts
       THEN \E o \in UploadOutcomes(cfg) :
               /\ Started(p, <<"upload", script>>, o.spawned)
               /\ IF o.err = "ok"
                  THEN /\ rScripts' = rScripts \cup {script}
                       /\ pc' = [pc EXCEPT ![p] = nextPc]
                       /\ stages' = [stages EXCEPT ![p] = stagesNow]
                       /\ UNCHANGED failVars
                  ELSE /\ FailAt(p, "StagingScripts", o.err)
                       /\ stages' = [stages EXCEPT ![p] = Append(stagesNow, "Failed")]
                       /\ UNCHANGED rScripts
       ELSE /\ pc' = [pc EXCEPT ![p] = nextPc]
            /\ stages' = [stages EXCEPT ![p] = stagesNow]
            /\ UNCHANGED <<spawned, ops, rScripts, failVars>>
    /\ UNCHANGED <<envVars, now, entryVars, nameVars, tarExists, resultExists, output,
                   fetched, http, rBundle, rDirs, rExtracted, rResult, libVars,
                   streamVars, health>>

\* Lines 317-323: process_and_save_result.py
StagingScripts(p) ==
    /\ pc[p] = "StagingScripts"
    /\ StageScript(p, ScriptProcess, Enter(p, "StagingScripts"), "StagingInference")

\* Lines 326-330: inference_with_pose.py
StagingInference(p) ==
    /\ pc[p] = "StagingInference"
    /\ StageScript(p, ScriptInference, stages[p], StageAfter("StagingScripts"))

\* What a successful run of process_and_save_result.py leaves in the
\* workspace: ideally a <session>_result.json for the sessions it finds.
ScriptWrites(results, dirs) ==
    {results}
    \cup { { r \in results : r.name \notin Names(dirs) }
           \cup { [name |-> n, doc |-> doc] : n \in Names(dirs) } : doc \in ResultDocs }

\* Lines 340-351: the inference run, streaming.
Executing(p) ==
    /\ pc[p] = "Executing"
    /\ \E rc \in {0, 1} :
        \E o \in RunOutcomes(cfg, {rc}) :
            /\ Started(p, <<"run", "inference">>, o.spawned)
            /\ IF o.err = "ok"
               THEN /\ \E out \in Outputs : output' = [output EXCEPT ![p] = out]
                    /\ rResult' \in ScriptWrites(rResult, rDirs)
                    /\ pc' = [pc EXCEPT ![p] = StageAfter("Executing")]
                    /\ stages' = [stages EXCEPT ![p] = Enter(p, "Executing")]
                    /\ UNCHANGED failVars
               ELSE /\ FailAt(p, "Executing", o.err)
                    /\ stages' = [stages EXCEPT ![p] = Append(Enter(p, "Executing"), "Failed")]
                    /\ UNCHANGED <<output, rResult>>
    /\ UNCHANGED <<envVars, now, entryVars, nameVars, tarExists, resultExists, fetched,
                   http, rBundle, rDirs, rExtracted, rScripts, libVars,
                   streamVars, health>>

\* A download that moves the file: the remote copy is gone afterwards.
DownloadRemoves(results, name) == { r \in results : r.name # name }

\* scp from the server (lines 98-117) copies: the result files of the
\* workspace after <name>_result.json has been fetched.
DownloadLeaves(results, name) == results

\* Lines 355-362: the temporary result file and the download into it.
Downloading(p) ==
    /\ pc[p] = "Downloading"
    /\ resultExists' = [resultExists EXCEPT ![p] = TRUE]
    /\ \E o \in DownloadOutcomes(cfg, sessionName[p] \in Names(rResult)) :
        /\ Started(p, <<"download", "result">>, o.spawned)
        /\ fetched' = [fetched EXCEPT ![p] =
               IF o.err = "ok"
               THEN [ok |-> TRUE,
                     doc |-> (CHOOSE r \in rResult : r.name = sessionName[p]).doc,
                     err |-> "none"]
               ELSE [ok |-> FALSE, doc |-> << >>, err |-> o.err]]
    /\ rResult' = DownloadLeaves(rResult, sessionName[p])
    /\ pc' = [pc EXCEPT ![p] = StageAfter("Downloading")]
    /\ stages' = [stages EXCEPT ![p] = Enter(p, "Downloading")]
    /\ UNCHANGED <<envVars, now, entryVars, nameVars, tarExists, output, failVars,
                   http, rBundle, rDirs, rExtracted, rScripts, libVars,
                   streamVars, health>>

\* A parser without the except clause: a failed download is an error.
ParseResultPrimaryOnly(f, out) ==
    IF f.ok THEN ParsePrimary(f.doc) ELSE [raised |-> TRUE, cup |-> DefaultCup, rot |-> None]

\* Lines 364-385: the primary path, and the fallback when it raised.
ParseResult(f, out) ==
    IF f.ok /\ ~ParsePrimary(f.doc).raised
    THEN ParsePrimary(f.doc)
    ELSE ParseFallback(out)

ParseError == "ValueError: no JSON in the output"

\* Lines 364-403: parsing, the removal of the temporary result file, and
\* the success envelope.
Parsing(p) ==
    /\ pc[p] = "Parsing"
    /\ resultExists' = [resultExists EXCEPT ![p] = UnlinkIfExists(resultExists[p])]
    /\ LET res == ParseResult(fetched[p], output[p])
       IN  IF res.raised
           THEN /\ FailAt(p, "Parsing", ParseError)
                /\ stages' = [stages EXCEPT ![p] = Append(Enter(p, "Parsing"), "Failed")]
           ELSE /\ pc' = [pc EXCEPT ![p] = StageAfter("Parsing")]
                /\ envelope' = [envelope EXCEPT ![p] = SuccessEnvelope(res.cup, res.rot)]
                /\ stages' = [stages EXCEPT ![p] =
                       Append(Enter(p, "Parsing"), StageAfter("Parsing"))]
                /\ UNCHANGED <<raised, failedAt>>
    /\ UNCHANGED <<envVars, now, entryVars, nameVars, tarExists, output, fetched,
                   spawned, ops, http, remoteVars, libVars,
                   streamVars, health>>

\* --------------------------------------------- the wrappers on their own
RunTimeout == "TimeoutExpired: ssh (600 s)"

\* run_on_gpu_server without streaming (lines 222-233): subprocess.run
\* raises TimeoutExpired after 600 s.
RunBatchOutcomes(c) ==
    IF RunConfigCheck(c) # "ok"
    THEN { [err |-> RunConfigCheck(c), spawned |-> 0, rc |-> 0, raw |-> NoScp] }
    ELSE RunOutcomes(c, {0, 1})
         \cup { [err |-> RunTimeout, spawned |-> 1, rc |-> 0, raw |-> NoScp] }

Called(fn, o) ==
    /\ libCalls < MaxCalls
    /\ libCalls' = libCalls + 1
    /\ lastCall' = [fn |-> fn, err |-> o.err, spawned |-> o.spawned, raw |-> o.raw]
    /\ UNCHANGED <<envVars, now, pc, entryVars, nameVars, tarExists, resultExists,
                   output, fetched, failVars, stages, spawned, ops, http, remoteVars,
                   streamVars, health>>

\* upload_to_gpu_server(local_path, remote_path)
CallUpload == \E o \in UploadOutcomes(cfg) : Called("upload", o)

\* download_from_gpu_server(remote_path, local_path)
CallDownload ==
    \E exists \in BOOLEAN : \E o \in DownloadOutcomes(cfg, exists) : Called("download", o)

\* run_on_gpu_server(command, realtime_output=True)
CallRunStreaming == \E o \in RunOutcomes(cfg, {0, 1}) : Called("run", o)

\* run_on_gpu_server(command)
CallRunBatch == \E o \in RunBatchOutcomes(cfg) : Called("run_batch", o)

\* ------------------------------------- run_on_gpu_server, streaming
\* process.wait(timeout=600), in seconds.
ExecTimeout == 600

\* output_lines[-20:]: the lines of output an error message carries.
TailLen == 20

\* The length of one clock tick in seconds, and the ticks a run is followed.
TickSeconds == 300
MaxTicks == 3

\* The lines the remote command writes in one run.
MaxLines == 3

\* The lines of a run with a long output.
MaxLongLines == 22

\* What the remote command can write: a text line, a text line that ends
\* with blanks, and a line of blanks only.
ShortLines == {"a", "b ", "blank"}

\* A read loop that keeps the line as it was read.
RstripNothing(l) == l

\* line.rstrip()
Rstrip(l) ==
    CASE l = "blank" -> ""
      [] l = "b " -> "b"
      [] OTHER -> l

\* The first lines of the output instead of the last.
FirstLines(lines) ==
    IF Len(lines) > TailLen THEN SubSeq(lines, 1, TailLen) ELSE lines

\* output_lines[-20:]
LastLines(lines) ==
    IF Len(lines) > TailLen
    THEN SubSeq(lines, Len(lines) - TailLen + 1, Len(lines))
    ELSE lines

NoOutput == "no output"
SshStreamFailed == "SSH command failed (code, recent output)"
SshStreamTimeout == "SSH command timeout (over 600 s)"
LoopError == "Exception raised in the read loop"

\* The exception of lines 208-211.
StreamError(code, lines) ==
    [kind |-> "error", err |-> SshStreamFailed, code |-> code,
     tail |-> IF lines # << >> THEN LastLines(lines) ELSE <<NoOutput>>]

\* Any other exception of the call: it carries no exit status and no output.
StreamRaise(e) == [kind |-> "error", err |-> e, code |-> 0, tail |-> << >>]

\* '\n'.join(output_lines), line 213.
StreamReturn(lines) == [kind |-> "ok", err |-> "ok", code |-> 0, tail |-> lines]

\* print(f"[GPU] {line}"), line 201.
LogLine(line) == <<"[GPU] ", line>>

\* A handler that leaves the child alone.
KillSkipped(proc) == proc

\* if process.poll() is None: process.kill()  (lines 218-219)
KillIfRunning(proc) == IF proc = "running" THEN "killed" ELSE proc

\* Everything but the state of the streaming run.
baseVars ==
    <<cfg, localScripts, now, pc, mode, fs, arg, actualFolder, sessionName,
      resolvedAt, tarExists, resultExists, output, fetched, envelope, raised,
      failedAt, stages, spawned, http, rBundle, rDirs, rExtracted, rResult,
      rScripts, lastCall, libCalls, ops, health>>

\* Lines 135-185: the configuration checks, then Popen and output_lines = [].
StreamBegin(caller) ==
    /\ sPc = "idle"
    /\ sCaller' = caller
    /\ IF RunConfigCheck(cfg) # "ok"
       THEN /\ sPc' = "raised"
            /\ sResult' = StreamRaise(RunConfigCheck(cfg))
            /\ UNCHANGED sProc
       ELSE /\ sPc' = "read"
            /\ sProc' = "running"
            /\ UNCHANGED sResult
    /\ UNCHANGED <<sRc, sEof, sPipe, sProduced, sLines, sLog, sElapsed, sWaitStart>>

\* run_on_gpu_server(command, realtime_output=True) called on its own.
StreamStart ==
    /\ StreamBegin("lib")
    /\ UNCHANGED baseVars

\* One iteration of the loop of lines 187-203. readline returns when a line
\* is in the pipe or the pipe is at end of file, and blocks otherwise.
\* excs: whether print can raise.
StreamRead(excs) ==
    /\ sPc = "read"
    /\ sPipe # << >> \/ sEof
    /\ IF sPipe # << >>
       THEN LET line == Rstrip(Head(sPipe))
            IN  /\ sPipe' = Tail(sPipe)
                /\ \E exc \in excs :
                    IF line # "" /\ exc
                    THEN /\ sProc' = KillIfRunning(sProc)
                         /\ sPc' = "raised"
                         /\ sResult' = StreamRaise(LoopError)
                         /\ UNCHANGED <<sLines, sLog>>
                    ELSE /\ sLines' = IF line # "" THEN Append(sLines, line) ELSE sLines
                         /\ sLog' = IF line # "" THEN Append(sLog, LogLine(line)) ELSE sLog
                         /\ UNCHANGED <<sProc, sPc, sResult>>
                /\ UNCHANGED sWaitStart
       ELSE /\ IF sProc # "running"
               THEN /\ sPc' = "wait"
                    /\ sWaitStart' = sElapsed
               ELSE UNCHANGED <<sPc, sWaitStart>>
            /\ UNCHANGED <<sPipe, sLines, sLog, sProc, sResult>>
    /\ UNCHANGED <<sCaller, sRc, sEof, sProduced, sElapsed, baseVars>>

\* Lines 206-216: process.wait(timeout=600) returns once the child has
\* exited and raises TimeoutExpired 600 s after it was called; then the exit
\* status is tested.
StreamWait ==
    /\ sPc = "wait"
    /\ sProc # "running" \/ (sElapsed - sWaitStart) * TickSeconds >= ExecTimeout
    /\ IF sProc # "running"
       THEN /\ IF sRc # 0
               THEN /\ sPc' = "raised"
                    /\ sResult' = StreamError(sRc, sLines)
               ELSE /\ sPc' = "returned"
                    /\ sResult' = StreamReturn(sLines)
            /\ UNCHANGED sProc
       ELSE /\ sProc' = "killed"
            /\ sPc' = "raised"
            /\ sResult' = StreamRaise(SshStreamTimeout)
    /\ UNCHANGED <<sCaller, sRc, sEof, sPipe, sProduced, sLines, sLog, sElapsed,
                   sWaitStart, baseVars>>

\* The remote command writes the line l.
ProcProduce(l, max) ==
    /\ sProc = "running"
    /\ ~sEof
    /\ Len(sProduced) < max
    /\ sPipe' = Append(sPipe, l)
    /\ sProduced' = Append(sProduced, l)
    /\ UNCHANGED <<sPc, sCaller, sProc, sRc, sEof, sLines, sLog, sElapsed, sWaitStart,
                   sResult, baseVars>>

\* The child closes its stdout and keeps running.
ProcCloseStdout ==
    /\ sProc = "running"
    /\ ~sEof
    /\ sEof' = TRUE
    /\ UNCHANGED <<sPc, sCaller, sProc, sRc, sPipe, sProduced, sLines, sLog, sElapsed,
                   sWaitStart, sResult, baseVars>>

\* The child exits with the status rc.
ProcExit(rc) ==
    /\ sProc = "running"
    /\ sProc' = "exited"
    /\ sRc' = rc
    /\ sEof' = TRUE
    /\ UNCHANGED <<sPc, sCaller, sPipe, sProduced, sLines, sLog, sElapsed, sWaitStart,
                   sResult, baseVars>>

\* Time passes while the call is in progress.
Tick ==
    /\ sPc \in {"read", "wait"}
    /\ sElapsed < MaxTicks
    /\ sElapsed' = sElapsed + 1
    /\ UNCHANGED <<sPc, sCaller, sProc, sRc, sEof, sPipe, sProduced, sLines, sLog,
                   sWaitStart, sResult, baseVars>>

\* Lines 340-350 up to the Popen of the streaming run of the inference.
ExecutingStart(p) ==
    /\ pc[p] = "Executing"
    /\ sCaller = "none"
    /\ StreamBegin(p)
    /\ Started(p, <<"run", "inference">>, IF RunConfigCheck(cfg) = "ok" THEN 1 ELSE 0)
    /\ UNCHANGED <<envVars, now, pc, entryVars, nameVars, tarExists, resultExists,
                   output, fetched, failVars, stages, http, remoteVars, libVars, health>>

\* Lines 350-351 and 405-412: the streaming run has returned the output, or
\* raised into the top-level handler.
ExecutingEnd(p) ==
    /\ pc[p] = "Executing"
    /\ sCaller = p
    /\ sPc \in {"returned", "raised"}
    /\ IF sPc = "returned"
       THEN /\ output' = [output EXCEPT ![p] = sResult.tail]
            /\ rResult' \in ScriptWrites(rResult, rDirs)
            /\ pc' = [pc EXCEPT ![p] = StageAfter("Executing")]
            /\ stages' = [stages EXCEPT ![p] = Enter(p, "Executing")]
            /\ UNCHANGED failVars
       ELSE /\ FailAt(p, "Executing", sResult)
            /\ stages' = [stages EXCEPT ![p] = Append(Enter(p, "Executing"), "Failed")]
            /\ UNCHANGED <<output, rResult>>
    /\ UNCHANGED <<envVars, now, entryVars, nameVars, tarExists, resultExists, fetched,
                   spawned, ops, http, rBundle, rDirs, rExtracted, rScripts, libVars,
                   streamVars, health>>

\* ---------------------------------------------------------- health
\* An answer that reports the state of the GPU configuration.
HealthResponseByConfig ==
    IF RunConfigCheck(cfg) = "ok"
    THEN [status |-> 200, detail |-> "none",
          body |-> [status |-> "ok", message |-> "Server is running"]]
    ELSE [status |-> 503, detail |-> RunConfigCheck(cfg),
          body |-> [status |-> "error", message |-> "GPU server not configured"]]

\* The answer of health_check (lines 414-417).
HealthResponse ==
    [status |-> 200, detail |-> "none",
     body |-> [status |-> "ok", message |-> "Server is running"]]

\* GET /api/health. The handlers are coroutines of one event loop and
\* process_session does not yield while the pipeline runs, so a request is
\* answered when no process_session request is in progress.
health_check ==
    /\ \A p \in Procs : mode[p] = "http" => pc[p] = "Responded"
    /\ health' = [response |-> HealthResponse, at |-> pc]
    /\ UNCHANGED <<envVars, now, pc, entryVars, nameVars, tarExists, resultExists,
                   output, fetched, failVars, stages, spawned, ops, http, remoteVars,
                   libVars, streamVars>>

\* ------------------------------------------------------ specifications
Uploads == {"ok", "empty_filename", "bad_zip"}

\* One invocation, entered directly or through the HTTP handler.
Next ==
    \/ \E l \in Layouts : DirectCall("p1", l)
    \/ \E l \in Layouts : process_session("p1", l, "ok")
    \/ \E u \in Uploads \ {"ok"} : process_session("p1", EmptyLayout, u)
    \/ process_session_return("p1")
    \/ ResolveSessionName("p1")
    \/ Packaging("p1")
    \/ Uploading("p1")
    \/ RemoteExtracting("p1")
    \/ StagingScripts("p1")
    \/ StagingInference("p1")
    \/ Executing("p1")
    \/ Downloading("p1")
    \/ Parsing("p1")

Spec == Init /\ [][Next]_vars

\* Two invocations up to the resolution of their session names.
NextLocate ==
    \E p \in Procs :
        \/ \E l \in Layouts : DirectCall(p, l)
        \/ \E l \in Layouts : process_session(p, l, "ok")
        \/ ResolveSessionName(p)

SpecLocate == InitWith({ValidConfig}) /\ [][NextLocate]_vars

\* The three wrappers called on their own, under every configuration.
NextCalls == CallUpload \/ CallDownload \/ CallRunStreaming \/ CallRunBatch

SpecCalls == InitWith(Configs) /\ [][NextCalls]_vars

\* One streaming call of run_on_gpu_server, step by step, with the remote
\* command free to write, to exit, or to do neither.
NextStream ==
    \/ StreamStart
    \/ StreamRead(BOOLEAN)
    \/ StreamWait
    \/ \E l \in ShortLines : ProcProduce(l, MaxLines)
    \/ ProcCloseStdout
    \/ \E rc \in {0, 1} : ProcExit(rc)
    \/ Tick

SpecStream == InitWith(PipelineConfigs) /\ [][NextStream]_vars

\* An archive holding session_1000/a.jsonl.
OneLayout == [sdir |-> TRUE, sub |-> {FileOtherJsonl}, files |-> {}]

\* The server answering health requests around one invocation of the
\* pipeline, entered through the handler or directly.
NextHealth ==
    \/ health_check
    \/ DirectCall("p1", OneLayout)
    \/ process_session("p1", OneLayout, "ok")
    \/ \E u \in Uploads \ {"ok"} : process_session("p1", EmptyLayout, u)
    \/ process_session_return("p1")
    \/ ResolveSessionName("p1")
    \/ Packaging("p1")
    \/ Uploading("p1")
    \/ RemoteExtracting("p1")
    \/ StagingScripts("p1")
    \/ StagingInference("p1")
    \/ Executing("p1")
    \/ Downloading("p1")
    \/ Parsing("p1")

SpecHealth == InitWith(PipelineConfigs) /\ [][NextHealth]_vars

\* Two invocations on the same archive, hence with the same session name,
\* interleaved on the shared remote workspace up to the end of the
\* inference run.
NextRace ==
    \E p \in Procs :
        \/ DirectCall(p, OneLayout)
        \/ ResolveSessionName(p)
        \/ Packaging(p)
        \/ Uploading(p)
        \/ RemoteExtracting(p)
        \/ StagingScripts(p)
        \/ StagingInference(p)
        \/ Executing(p)

SpecRace == InitWith({ValidConfig}) /\ [][NextRace]_vars

\* One direct invocation on a workspace that may already hold a directory
\* named "extracted".
NextExtract ==
    \/ \E l \in Layouts : DirectCall("p1", l)
    \/ ResolveSessionName("p1")
    \/ Packaging("p1")
    \/ Uploading("p1")
    \/ RemoteExtracting("p1")
    \/ StagingScripts("p1")
    \/ StagingInference("p1")
    \/ Executing("p1")
    \/ Downloading("p1")
    \/ Parsing("p1")

SpecExtract == InitIn({ValidConfig}, BOOLEAN) /\ [][NextExtract]_vars

\* One invocation whose inference run is followed line by line; the remote
\* command numbers the lines it writes, up to MaxLongLines.
NextTail ==
    \/ DirectCall("p1", OneLayout)
    \/ ResolveSessionName("p1")
    \/ Packaging("p1")
    \/ Uploading("p1")
    \/ RemoteExtracting("p1")
    \/ StagingScripts("p1")
    \/ StagingInference("p1")
    \/ ExecutingStart("p1")
    \/ StreamRead({FALSE})
    \/ StreamWait
    \/ ProcProduce(ToString(Len(sProduced) + 1), MaxLongLines)
    \/ \E rc \in {0, 1} : ProcExit(rc)
    \/ ExecutingEnd("p1")
    \/ Downloading("p1")
    \/ Parsing("p1")

SpecTail == InitWith({ValidConfig}) /\ [][NextTail]_vars

\* ------------------------------------------------------------- claims
\* The pipeline has resolved its session name.
Resolved(p) ==
    /\ pc[p] \notin {"idle", "Resolving"}
    /\ ~(pc[p] = "Responded" /\ envelope[p] = NoEnvelope)

\* The pipeline has returned.
Returned(p) == envelope[p] # NoEnvelope

Range(seq) == { seq[i] : i \in 1..Len(seq) }

FatalStages == {"Packaging", "Uploading", "RemoteExtracting", "StagingScripts", "Executing"}

\* C1: when Packaging, Uploading, RemoteExtracting, StagingScripts or
\* Executing fails, no later stage is attempted and the pipeline returns a
\* failure envelope: success is false, and both 'error' and 'message' carry
\* the originating error.
C1_FailureEnvelope ==
    \A p \in Procs :
        failedAt[p] \in FatalStages =>
            /\ Returned(p)
            /\ DOMAIN envelope[p] = {"success", "error", "message"}
            /\ envelope[p].success = FALSE
            /\ raised[p] # "none"
            /\ envelope[p].error = raised[p]
            /\ raised[p] \in Range(envelope[p].message)
            /\ stages[p] = SubSeq(Canon, 1, StageIndex(failedAt[p])) \o <<"Failed">>

C1_Witness ==
    /\ failedAt["p1"] = "Executing"
    /\ raised["p1"] = SshFailed
    /\ pc["p1"] = "Failed"

\* C2: the stages of one invocation occur only in the order Packaging,
\* Uploading, RemoteExtracting, StagingScripts, Executing, Downloading,
\* Parsing, Done: none twice, none skipped, possibly cut short by Failed.
C2_StageOrder ==
    \A p \in Procs :
        LET n == Len(stages[p])
        IN  /\ \/ n <= Len(Canon) /\ stages[p] = SubSeq(Canon, 1, n)
               \/ /\ n >= 2
                  /\ n - 1 < Len(Canon)
                  /\ stages[p][n] = "Failed"
                  /\ SubSeq(stages[p], 1, n - 1) = SubSeq(Canon, 1, n - 1)
            /\ pc[p] = "Done" => stages[p] = Canon
            /\ pc[p] \in Range(Canon) \ {"Done"} =>
                   stages[p] = SubSeq(Canon, 1, StageIndex(pc[p]) - 1)

C2_Witness == pc["p1"] = "Done" /\ stages["p1"] = Canon

\* C3: whenever the pipeline has returned, with either envelope, neither
\* the local temporary bundle nor the local temporary result file exists.
C3_TempFilesRemoved ==
    \A p \in Procs : Returned(p) => ~tarExists[p] /\ ~resultExists[p]

C3_Witness ==
    /\ Returned("p1")
    /\ envelope["p1"].success
    /\ "Downloading" \in Range(stages["p1"])
    /\ ~tarExists["p1"]
    /\ ~resultExists["p1"]

\* Executing has completed without raising.
ExecSucceeded(p) ==
    /\ Len(stages[p]) >= 5
    /\ stages[p][5] = "Executing"
    /\ failedAt[p] # "Executing"

DownloadRaised(p) == ~fetched[p].ok /\ fetched[p].err # "none"

\* The JSON object found in the captured output, as the fallback finds it.
FallbackObject(p) == JsonLoads(ReSearch(output[p]))

\* C4: when Executing succeeded and the download of the result file failed,
\* the pipeline does not fail: it returns success=true with what the
\* fallback path reads from the captured output.
C4_DownloadFailureFallsBack ==
    \A p \in Procs :
        (ExecSucceeded(p) /\ DownloadRaised(p)) =>
            /\ failedAt[p] = "none"
            /\ pc[p] # "Failed"
            /\ Returned(p) =>
                /\ envelope[p].success
                /\ FallbackObject(p).kind = "dict" /\ "C" \in FallbackObject(p).members
                       => envelope[p].cup_coordinates = Arr(<<1, 2, 3>>)

C4_Witness ==
    /\ ExecSucceeded("p1")
    /\ DownloadRaised("p1")
    /\ Returned("p1")
    /\ envelope["p1"].success
    /\ envelope["p1"].cup_coordinates = Arr(<<1, 2, 3>>)

PrimaryFailed(p) == ~fetched[p].ok \/ JsonLoads(fetched[p].doc).kind # "dict"
FallbackFailed(p) == ReSearch(output[p]) = << >> \/ FallbackObject(p).kind # "dict"

\* C5: once Executing has succeeded the pipeline never fails, and when both
\* the primary and the fallback path fail the envelope is success=true with
\* cup_coordinates [0, 0, 0] and no rotation_axis.
C5_ParseNeverFatal ==
    \A p \in Procs :
        ExecSucceeded(p) =>
            /\ failedAt[p] = "none"
            /\ (Returned(p) /\ PrimaryFailed(p) /\ FallbackFailed(p)) =>
                   envelope[p] =
                       [success |-> TRUE,
                        cup_coordinates |-> Arr(<<0, 0, 0>>),
                        message |-> SuccessMessage]

C5_Witness ==
    /\ ExecSucceeded("p1")
    /\ Returned("p1")
    /\ fetched["p1"].ok
    /\ PrimaryFailed("p1")
    /\ FallbackFailed("p1")
    /\ envelope["p1"].success

\* The folder whose entries the name resolution looked at.
Examined(p) == Listing(fs[p], actualFolder[p])

\* C6: for an uploaded archive whose extracted root holds a top-level
\* directory session_1000, the canonical session name is exactly
\* session_1000, whatever the directory contains; the remote bundle carries
\* that name.
C6_SessionDirNameUsed ==
    \A p \in Procs :
        (Resolved(p) /\ mode[p] = "http" /\ fs[p].sdir) =>
            /\ sessionName[p] = <<"session_", "1000">>
            /\ \A b \in rBundle : b.by = p => b.name = <<"session_", "1000">>

\* C7: for an archive with no session_* directory and a file
\* session_42.jsonl, the canonical session name is session_42 (the
\* extension stripped), on the direct call and through the HTTP handler.
C7_JsonlExtensionStripped ==
    \A p \in Procs :
        (Resolved(p) /\ ~fs[p].sdir /\ <<"session_", "42", ".jsonl">> \in fs[p].files) =>
            sessionName[p] = <<"session_", "42">>

\* C8: session-name resolution always yields a non-empty name, for every
\* layout: before the resolution every name it can yield is non-empty and
\* there is one, and the name resolved is non-empty.
C8_NameNonEmpty ==
    \A p \in Procs :
        /\ pc[p] = "Resolving" =>
               \A t \in now..MaxNow :
                   /\ ResolveNames(fs[p], arg[p], t) # {}
                   /\ \A n \in ResolveNames(fs[p], arg[p], t) :
                          Len(n) > 0 /\ \A i \in 1..Len(n) : n[i] # ""
        /\ Resolved(p) => Len(sessionName[p]) > 0

C8_Witness ==
    /\ Resolved("p1")
    /\ Examined("p1") = {}
    /\ sessionName["p1"] = <<"session_", "0">>

\* The folder examined holds no session_* entry and a .jsonl file.
OnlyOtherJsonl(p) ==
    /\ \A e \in Examined(p) : e[1] # "session_"
    /\ \E e \in Examined(p) : e[Len(e)] = ".jsonl"

\* C9 as stated: the name synthesized for a non-matching .jsonl is
\* session_<epoch milliseconds>, and two resolutions at different clock
\* times yield different names.
C9_DistinctAtDifferentTimes ==
    \A p, q \in Procs :
        (p # q /\ Resolved(p) /\ Resolved(q) /\ OnlyOtherJsonl(p) /\ OnlyOtherJsonl(q)
         /\ resolvedAt[p] # resolvedAt[q]) =>
            sessionName[p] # sessionName[q]

\* C9 amended: the name synthesized for a non-matching .jsonl is
\* session_<epoch milliseconds>, and two resolutions whose clock readings
\* fall in different milliseconds yield different names.
C9_DistinctAtDifferentMillis ==
    \A p, q \in Procs :
        (Resolved(p) /\ OnlyOtherJsonl(p)) =>
            /\ sessionName[p] = <<"session_", ToString(resolvedAt[p] \div TicksPerMs)>>
            /\ (p # q /\ Resolved(q) /\ OnlyOtherJsonl(q)
                /\ resolvedAt[p] \div TicksPerMs # resolvedAt[q] \div TicksPerMs) =>
                   sessionName[p] # sessionName[q]

C9_Witness ==
    /\ Resolved("p1") /\ Resolved("p2")
    /\ OnlyOtherJsonl("p1") /\ OnlyOtherJsonl("p2")
    /\ resolvedAt["p1"] \div TicksPerMs # resolvedAt["p2"] \div TicksPerMs
    /\ sessionName["p1"] # sessionName["p2"]

\* C10: for upload, download and run alike, when the host, the user or the
\* key path is not configured, or the key file does not exist, the call
\* raises a configuration error and starts no scp/ssh process.
C10_ConfigErrorBeforeSpawn ==
    (lastCall.fn # "none" /\ (~cfg.host \/ ~cfg.user \/ ~cfg.key \/ ~cfg.keyExists)) =>
        /\ lastCall.err \in {ValueError, KeyNotFound}
        /\ lastCall.spawned = 0

\* A step of the streaming call that changes its state.
StreamProgress == <<StreamRead(BOOLEAN) \/ StreamWait>>_streamVars

\* C11: in streaming mode, once the 600 s have elapsed and the ssh child is
\* still running, the call is not stuck: it has ended, or it can take the
\* step that kills the child and raises the timeout error.
C11_TimeoutEndsHungRun ==
    (/\ sProc = "running"
     /\ sElapsed * TickSeconds > ExecTimeout)
    => \/ sPc \in {"returned", "raised"}
       \/ ENABLED StreamProgress

\* The streaming run has raised the error of a non-zero exit status.
ExitFailure == sPc = "raised" /\ sResult.err = SshStreamFailed

\* C12: a streaming run whose child exited with a non-zero status raises an
\* error that carries that status and exactly the last min(20, n) of the n
\* captured lines, in order; raised in Executing, it ends the pipeline
\* Failed with that error in the envelope.
C12_ExitErrorCarriesTail ==
    /\ (sPc \in {"returned", "raised"} /\ sProc = "exited" /\ sRc # 0) => ExitFailure
    /\ ExitFailure =>
        LET n == Len(sLines)
            k == IF n < TailLen THEN n ELSE TailLen
        IN  /\ sResult.code = sRc
            /\ sRc # 0
            /\ n > 0 =>
                /\ Len(sResult.tail) = k
                /\ \A i \in 1..k : sResult.tail[i] = sLines[n - k + i]
            /\ n = 0 => sResult.tail = <<NoOutput>>
    /\ \A p \in Procs :
        (ExitFailure /\ sCaller = p /\ pc[p] # "Executing") =>
            /\ pc[p] = "Failed"
            /\ failedAt[p] = "Executing"
            /\ ~envelope[p].success
            /\ envelope[p].error = sResult

C12_Witness ==
    /\ ExitFailure
    /\ Len(sLines) > TailLen
    /\ pc["p1"] = "Failed"
    /\ envelope["p1"].error.code = 1

\* The message reports that the GPU server cannot be reached.
ConnectivityErrors ==
    {UploadTimeout, DownloadTimeout, ConnectFailed, DownloadConnectFailed}

\* C13: for upload and download alike, the one scp attempt is classified:
\* exit 0 is success; the timeout, or a non-zero exit whose diagnostic says
\* connection refused / timed out, is a connectivity error whose message
\* contains remediation guidance; any other non-zero exit is a transfer
\* error carrying the raw diagnostic text.
C13_ScpClassification ==
    (lastCall.fn \in {"upload", "download"} /\ lastCall.spawned = 1) =>
        LET r == lastCall.raw
            e == lastCall.err
        IN  /\ (~r.timedOut /\ r.rc = 0) => e = "ok"
            /\ (r.timedOut
                \/ (r.rc # 0 /\ r.diag \in {"Connection refused", "Connection timed out"}))
               => (e \in ConnectivityErrors /\ Guidance(e) # {})
            /\ (~r.timedOut /\ r.rc # 0
                /\ r.diag \notin {"Connection refused", "Connection timed out"})
               => (e \in {UploadFailed, DownloadFailed} /\ Diagnostic(e, r) = r.diag)

\* C14: nothing is retried. Each wrapper call of an invocation starts at
\* most one scp/ssh process, and the bundle upload, the remote extraction,
\* each script upload, the inference run and the result download are each
\* called at most once, also after a connectivity failure.
C14_NothingRetried ==
    \A p \in Procs :
        /\ spawned[p] <= Len(ops[p])
        /\ \A i, j \in 1..Len(ops[p]) : i # j => ops[p][i] # ops[p][j]
        /\ Range(ops[p]) \subseteq
               { <<"upload", "bundle">>, <<"run", "extract">>,
                 <<"upload", ScriptProcess>>, <<"upload", ScriptInference>>,
                 <<"run", "inference">>, <<"download", "result">> }

C14_Witness ==
    /\ pc["p1"] = "Done"
    /\ fetched["p1"].err \in ConnectivityErrors
    /\ Len(ops["p1"]) = 6
    /\ spawned["p1"] = 6

\* The handler rejected the upload before it called the pipeline.
Rejected(p) == pc[p] = "Responded" /\ envelope[p] = NoEnvelope

\* C15: POST /api/process-session answers 400 to every input-validation
\* failure (empty filename, an archive that is not a zip, a layout with no
\* session_* entry and no .jsonl file) without starting the pipeline or any
\* remote operation; 500 with the error as detail when the pipeline
\* returned success = false; and the envelope unchanged when it returned
\* success = true.
C15_HttpStatus ==
    \A p \in Procs :
        (mode[p] = "http" /\ pc[p] = "Responded") =>
            /\ Rejected(p) =>
                /\ http[p].status = 400
                /\ stages[p] = << >>
                /\ ops[p] = << >>
            /\ (~Rejected(p) /\ ~envelope[p].success) =>
                /\ http[p].status = 500
                /\ http[p].detail = envelope[p].error
            /\ (~Rejected(p) /\ envelope[p].success) =>
                /\ http[p].status = 200
                /\ http[p].body = envelope[p]

\* The pipeline returned a success envelope.
Succeeded(p) == Returned(p) /\ envelope[p].success

\* C16: in every success envelope cup_coordinates has exactly three
\* components and rotation_axis, when present, has exactly three, whatever
\* JSON the result file or the output held.
C16_ThreeComponents ==
    \A p \in Procs :
        Succeeded(p) =>
            /\ envelope[p].cup_coordinates.t = "arr"
            /\ Len(envelope[p].cup_coordinates.v) = 3
            /\ "rotation_axis" \in DOMAIN envelope[p] =>
                /\ envelope[p].rotation_axis.t = "arr"
                /\ Len(envelope[p].rotation_axis.v) = 3

\* The members of the JSON object the parser read: the downloaded file's,
\* otherwise the object found in the output, otherwise none.
ParsedMembers(p) ==
    IF ~PrimaryFailed(p) THEN JsonLoads(fetched[p].doc).members
    ELSE IF ~FallbackFailed(p) THEN FallbackObject(p).members
    ELSE {}

\* The parsed result carried a rotation axis: a three-component array.
CarriedAxis(p) ==
    \E m \in ParsedMembers(p) :
        /\ MemberKey(m) = "rotation_axis"
        /\ MemberValue(m).t = "arr"
        /\ Len(MemberValue(m).v) = 3

Positions(p, tok) == { i \in 1..Len(output[p]) : output[p][i] = tok }

Min(S) == CHOOSE i \in S : \A j \in S : i <= j
Max(S) == CHOOSE i \in S : \A j \in S : j <= i

\* Text between the positions i and j of the output of p is a list of
\* members holding the coordinates [1, 2, 3].
ObjectWithCup(p, i, j) ==
    /\ i < j
    /\ \A k \in (i + 1)..(j - 1) : output[p][k] \in MemberTokens
    /\ \E k \in (i + 1)..(j - 1) : output[p][k] = "C"

\* The fallback ran and the pipeline returned.
FellBack(p) == ExecSucceeded(p) /\ PrimaryFailed(p) /\ Returned(p)

C20_RemotePathsShared ==
    /\ \A b1, b2 \in rBundle : b1.name = b2.name => b1 = b2
    /\ \A d1, d2 \in rDirs : d1.name = d2.name => d1 = d2
    /\ \A r1, r2 \in rResult : r1.name = r2.name => r1 = r2
    /\ \A p \in Procs :
        /\ (pc[p] = "RemoteExtracting" /\ failedAt[p] = "none")
           => Cardinality({ b \in rBundle : b.name = sessionName[p] }) <= 1
        /\ \A b \in rBundle : b.by = p => b.name = sessionName[p]

C20_Witness ==
    /\ sessionName["p1"] = sessionName["p2"]
    /\ "RemoteExtracting" \in Range(stages["p1"])
    /\ failedAt["p1"] = "none"
    /\ "Uploading" \in Range(stages["p2"])
    /\ failedAt["p2"] = "RemoteExtracting"
    /\ raised["p2"] = SshFailed
    /\ sessionName["p2"] \notin Names(rBundle)
    /\ [name |-> sessionName["p2"], by |-> "p2"] \in rDirs

\* The step is the run of extract_cmd by p, with the ssh process started.
ExtractRan(p) ==
    /\ ops'[p] = Append(ops[p], <<"run", "extract">>)
    /\ spawned'[p] = spawned[p] + 1

\* The directories of the workspace once the bundle of the session name n
\* has been decompressed.
DecompressedNames(n) == Names(rDirs) \cup ({Arcname(n)} \ {RootName})

\* C21: RemoteExtracting decompresses the bundle, then renames "extracted"
\* to the session name if and only if "extracted" exists and no directory
\* with the session name exists, then deletes the bundle; each step runs
\* only if the previous one succeeded, and after a successful
\* RemoteExtracting the bundle is absent from the workspace.
C21_ExtractOrder ==
    [][\A p \in Procs :
          ExtractRan(p) =>
              LET n == sessionName[p]
                  decompressed == rDirs' # rDirs \/ rExtracted' # rExtracted
                  renamed == [name |-> n, by |-> NoProc] \in rDirs' \ rDirs
                  deleted == n \in Names(rBundle) /\ n \notin Names(rBundle')
                  succeeded == pc'[p] = StageAfter("RemoteExtracting")
              IN  /\ renamed => decompressed
                  /\ renamed =>
                        /\ rExtracted \/ Arcname(n) = RootName
                        /\ n \notin DecompressedNames(n)
                  /\ (succeeded /\ rExtracted /\ n \notin DecompressedNames(n)) => renamed
                  /\ deleted => (n \in Names(rDirs') /\ succeeded)
                  /\ succeeded =>
                        /\ n \in Names(rDirs')
                        /\ n \notin Names(rBundle')
                        /\ rBundle' = { b \in rBundle : b.name # n }
                  /\ ~succeeded => rBundle' = rBundle]_vars

C21_Witness ==
    /\ pc["p1"] = "StagingScripts"
    /\ rExtracted
    /\ sessionName["p1"] \in Names(rDirs)
    /\ sessionName["p1"] \notin Names(rBundle)
    /\ "RemoteExtracting" \in Range(stages["p1"])

Scripts == {ScriptProcess, ScriptInference}

\* The invocation has left StagingScripts for Executing.
Staged(p) ==
    /\ "StagingScripts" \in Range(stages[p])
    /\ failedAt[p] # "StagingScripts"
    /\ pc[p] \notin {"StagingScripts", "StagingInference"}

\* C22: in StagingScripts each of the two scripts is uploaded if and only if
\* it exists locally; with one or both absent the pipeline still goes on to
\* Executing without error, and a failed upload of a script that is present
\* ends the pipeline Failed before Executing.
C22_ScriptsStagedIffLocal ==
    \A p \in Procs :
        /\ \A sc \in Scripts : <<"upload", sc>> \in Range(ops[p]) => sc \in localScripts
        /\ Staged(p) =>
              /\ \A sc \in Scripts : sc \in localScripts => <<"upload", sc>> \in Range(ops[p])
              /\ pc[p] = "Executing" \/ "Executing" \in Range(stages[p])
        /\ failedAt[p] = "StagingScripts" =>
              /\ pc[p] \in {"Failed", "Responded"}
              /\ "Executing" \notin Range(stages[p])
              /\ <<"run", "inference">> \notin Range(ops[p])
              /\ \E sc \in Scripts \cap localScripts :
                    /\ ops[p][Len(ops[p])] = <<"upload", sc>>
                    /\ raised[p] \in {UploadTimeout, ConnectFailed, UploadFailed}

C22_Witness ==
    /\ pc["p1"] = "Executing"
    /\ localScripts = {ScriptInference}
    /\ <<"upload", ScriptInference>> \in Range(ops["p1"])
    /\ <<"upload", ScriptProcess>> \notin Range(ops["p1"])

\* The lines the loop has taken from the pipe and finished handling.
Handled ==
    SubSeq(sProduced, 1,
           Len(sProduced) - Len(sPipe)
           - (IF sPc = "raised" /\ sResult.err = LoopError THEN 1 ELSE 0))

\* The line holds text.
HasText(l) == l # "blank"

\* A line without its trailing blanks; a line of blanks is empty then.
Bare(l) == IF l = "b " THEN "b" ELSE IF l = "blank" THEN "" ELSE l

\* The lines of a sequence without their trailing blanks.
BareLines(lines) == [i \in 1..Len(lines) |-> Bare(lines[i])]

\* The text lines of a sequence of lines, without their trailing blanks.
TextOf(lines) == BareLines(SelectSeq(lines, HasText))

\* C23 as claimed: every line the remote command has produced and the loop
\* has read is in the log, in production order, before the next line is
\* read, and on a zero exit status the returned text is exactly all lines
\* produced, in order (lines are compared without their trailing blanks).
C23_AllLinesForwarded ==
    /\ sLog = [i \in 1..Len(Handled) |-> LogLine(Bare(Handled[i]))]
    /\ sPc = "returned" => sResult.tail = BareLines(sProduced)

\* C23: every line that holds text is in the log, without its trailing
\* blanks and in production order, before the next line is read; lines of
\* blanks only are neither logged nor kept; on a zero exit status the
\* returned text is exactly the text lines produced, in order.
C23_TextLinesForwarded ==
    /\ sLog = [i \in 1..Len(TextOf(Handled)) |-> LogLine(TextOf(Handled)[i])]
    /\ sLines = TextOf(Handled)
    /\ sPc = "returned" =>
          /\ sRc = 0
          /\ sPipe = << >>
          /\ sResult.tail = TextOf(sProduced)

C23_Witness ==
    /\ sPc = "returned"
    /\ sProduced = <<"a", "blank", "b ">>
    /\ sResult.tail = <<"a", "b">>
    /\ sLog = <<LogLine("a"), LogLine("b")>>

\* The step ends the invocation p, or is its parsing and cleanup.
ExitStep(p) ==
    \/ pc[p] = "Parsing"
    \/ pc'[p] = "Failed" /\ pc[p] # "Failed"

\* C24: the pipeline never tears the remote workspace down. The only remote
\* file a step removes is the bundle of the invocation's own session name,
\* uploaded in that invocation and removed by its extraction; session
\* directories, staged scripts and result files are never removed, and the
\* cleanup on the exit paths changes nothing in the workspace.
C24_NoRemoteTeardown ==
    [][/\ Names(rDirs) \subseteq Names(rDirs')
       /\ rScripts \subseteq rScripts'
       /\ Names(rResult) \subseteq Names(rResult')
       /\ rExtracted => rExtracted'
       /\ \A b \in rBundle :
             b.name \notin Names(rBundle') =>
                 \E p \in Procs :
                     /\ ExtractRan(p)
                     /\ b.name = sessionName[p]
                     /\ "Uploading" \in Range(stages[p])
       /\ \A p \in Procs :
             (ExitStep(p) /\ ~ExtractRan(p)) =>
                 /\ rDirs' = rDirs
                 /\ rScripts' = rScripts
                 /\ rResult' = rResult
                 /\ rBundle' = rBundle
                 /\ rExtracted' = rExtracted]_vars

C24_Witness ==
    /\ pc["p1"] = "Done"
    /\ ~resultExists["p1"]
    /\ ~tarExists["p1"]
    /\ rBundle = {}
    /\ sessionName["p1"] \in Names(rDirs)
    /\ sessionName["p1"] \in Names(rResult)
    /\ rScripts = {ScriptProcess, ScriptInference}

\* C25: whenever a streaming call of run_on_gpu_server has ended, by
\* returning the output or by raising any error, the ssh child it started
\* is not running: it has exited on its own or has been killed (or was
\* never started, when the configuration check raised).
C25_ChildNotRunningAfterCall ==
    sPc \in {"returned", "raised"} =>
        /\ sProc \in {"exited", "killed", "none"}
        /\ sProc = "none" <=> sResult.err \in {ValueError, KeyNotFound}
        /\ sPc = "returned" => sProc = "exited"

C25_Witness ==
    /\ sPc = "raised"
    /\ sResult.err = LoopError
    /\ sProc = "killed"
    /\ sPipe # << >>

\* C26: the bundle is archived under the session name, so a decompression
\* that succeeded leaves a directory with the session name; the rename of
\* "extracted" is therefore never carried out by any invocation, and a
\* directory "extracted" that was in the workspace beforehand is neither
\* renamed nor otherwise changed.
C26_RenameNeverTaken ==
    [][/\ rExtracted' = rExtracted
       /\ \A d \in rDirs' : d.by # NoProc /\ d.name # RootName
       /\ \A p \in Procs :
             ExtractRan(p) =>
                 LET n == sessionName[p]
                 IN  /\ Arcname(n) = n
                     /\ (rDirs' # rDirs \/ pc'[p] = StageAfter("RemoteExtracting"))
                            => n \in Names(rDirs')
                     /\ rDirs' \ rDirs \subseteq { [name |-> n, by |-> q] : q \in Procs }]_vars

C26_Witness ==
    /\ rExtracted
    /\ "Executing" \in Range(stages["p1"])
    /\ [name |-> sessionName["p1"], by |-> "p1"] \in rDirs
    /\ sessionName["p1"] \notin Names(rBundle)

====
